---- MODULE Spec2Model ----
(***************************************************************************)
(* The incremental annotation pipeline of sam3-eyes-dist-measure:          *)
(*   AnimalDetector      (animal_extractor.py)  writes the document,       *)
(*   AnimalEyePipeline   (eyes_extractor.py)    adds "eyes" per object,    *)
(*   AnimalMeasurementTool (measurement_tool.py) adds metrics and pairs.   *)
(* The document animal_masks.json is the variable json_file; the pipeline  *)
(* object's self.data is the variable data.  The stages run one at a time  *)
(* (main.py calls them in sequence), so a stage starts only when the       *)
(* refinement run loop is idle.                                            *)
(***************************************************************************)
EXTENDS Integers, Sequences, FiniteSets, TLC

VARIABLES
    folder,       \* image files present in the image folder
    json_file,    \* the persisted document: [state, doc]
    stage,        \* the stage invoked last and how it ended
    data,         \* AnimalEyePipeline.data, the in-memory mapping
    show,         \* AnimalEyePipeline.show
    pcE,          \* position of AnimalEyePipeline: idle, image, obj, write, save
    imgPos,       \* index of the current item of self.data.items()
    objPos,       \* index i of enumerate(all_objects)
    is_modified,  \* the local is_modified of run
    eyes_data,    \* the value _process_sam_eyes returned, not yet stored
    calls,        \* <<img, i>> for which _process_sam_eyes ran in this run
    written,      \* <<img, i, eyes>> stored by obj["eyes"] = eyes_data in this run
    unread,       \* images cv2.imread could not read in this run
    sigCaught,    \* the except KeyboardInterrupt clause of run was entered
    broke,        \* the ESC break of run was taken
    saved,        \* save_results ran in this run
    prevFull,     \* this run directly follows a saved run that visited every object
    mkImg,        \* masking: img_bgr
    mkObjs,       \* masking: all_objects
    mkIdx,        \* masking: obj_index
    mkInput,      \* masking: masked_input handed to the detector
    mkPc,         \* masking: start, masked, done, error
    gt_rows,      \* TestVerifier: the rows of the ground-truth CSV
    sys_individual_map,  \* TestVerifier: (img_name, obj_id) -> eyes_dist
    sys_pair_map, \* TestVerifier: (img_name, sorted_pair_ids) -> right_eye_dist
    rowPos,       \* TestVerifier.run: index of the row of "for row in gt_rows"
    actual,       \* TestVerifier.run: the value looked up for the last row
    verdict,      \* TestVerifier.run: what was printed for the last row
    total_error,  \* TestVerifier.run: total_error, in hundredths
    match_count,  \* TestVerifier.run: match_count
    miss_count,   \* TestVerifier.run: miss_count
    mae,          \* TestVerifier.run: mae, as <<total_error, match_count>>
    pcV           \* position of TestVerifier: off, start, rows, report, done, return, error

vars == <<folder, json_file, stage, data, show, pcE, imgPos, objPos, is_modified,
          eyes_data, calls, written, unread, sigCaught, broke, saved, prevFull,
          mkImg, mkObjs, mkIdx, mkInput, mkPc,
          gt_rows, sys_individual_map, sys_pair_map, rowPos, actual, verdict,
          total_error, match_count, miss_count, mae, pcV>>

pipeVars == <<folder, json_file, stage, data, show, pcE, imgPos, objPos, is_modified,
              eyes_data, calls, written, unread, sigCaught, broke, saved, prevFull>>

maskVars == <<mkImg, mkObjs, mkIdx, mkInput, mkPc>>

verVars == <<gt_rows, sys_individual_map, sys_pair_map, rowPos, actual, verdict,
             total_error, match_count, miss_count, mae, pcV>>

----------------------------------------------------------------------------
(* Bounds *)

\* objects YOLO reports per image, at most
MaxObjects == 2

\* siblings of the target in a masking input, at most
MaxSiblings == 2

\* objects of the image of a measurement input, at most
MaxMeasured == 3

\* side of the square pixel grid of a masking input (pixels 0..GridSize-1)
GridSize == 4

----------------------------------------------------------------------------
(* Values *)

Absent == <<>>
Some(v) == <<v>>

\* json.dumps of a point list: the string that holds it
Dumps(pts) == [json |-> TRUE, val |-> pts]

\* a stored string that is not JSON (corrupt data)
BadString == [json |-> FALSE, val |-> <<>>]

\* the empty string: a falsy "segmentation"
EmptyString == [json |-> FALSE, val |-> <<0>>]

ParseOk(s) == s.json

\* json.loads of a stored string (defined where ParseOk)
Loads(s) == s.val

Images == {"a.jpg", "b.jpg"}

\* os.listdir order, which is the document's key order
ImageOrder == <<"a.jpg", "b.jpg">>

\* results.orig_shape of an image file
OrigShape(img) == IF img = "a.jpg" THEN <<8, 8>> ELSE <<6, 8>>

EmptyDoc == [i \in {} |-> 0]
Missing == [state |-> "missing", doc |-> EmptyDoc]
Corrupt == [state |-> "corrupt", doc |-> EmptyDoc]
Json(d) == [state |-> "json", doc |-> d]

\* the keys of a mapping in iteration order
Keys(d) == SelectSeq(ImageOrder, LAMBDA i : i \in DOMAIN d)

----------------------------------------------------------------------------
(* AnimalDetector, animal_extractor.py *)

\* the k-th detection YOLO reports: class, confidence (in 1/10000), box
\* (results.boxes.xyxy) and contour (results.masks.xy, float pixel
\* coordinates, held here in half pixels)
YoloDetection(k) ==
    [cls  |-> IF k % 2 = 1 THEN "cat" ELSE "dog",
     conf |-> 9000 - k,
     xyxy |-> <<2 * (k - 1), 0, 2 * k, 2>>,
     xy   |-> <<<<4 * (k - 1) + 1, 1>>, <<4 * k - 1, 1>>,
                <<4 * k - 1, 3>>, <<4 * (k - 1) + 1, 3>>>>]

\* what self.model(img_path) may return for an image; <<>> is masks None.
\* The first image holds up to MaxObjects animals, any other at most one.
YoloOutputs(img) ==
    {[k \in 1..n |-> YoloDetection(k)] :
        n \in 0..(IF img = ImageOrder[1] THEN MaxObjects ELSE 1)}

\* _format_segmentation
FormatSegmentation(contour_points) == Dumps(contour_points)

\* the dict appended to img_data for detection i (1-based here, "object_id" is i-1)
NewObject(det, i) ==
    [object_id    |-> i - 1,
     class        |-> det.cls,
     confidence   |-> det.conf,
     bbox         |-> det.xyxy,
     segmentation |-> FormatSegmentation(det.xy),
     eyes         |-> <<>>,
     eyes_dist    |-> Absent,
     eye_L_center |-> Absent,
     eye_R_center |-> Absent]

\* all_records[img_file], in both branches of "results.masks is not None"
ImageRecord(img, result) ==
    [width         |-> OrigShape(img)[2],
     height        |-> OrigShape(img)[1],
     animals_found |-> Len(result),
     objects       |-> [i \in 1..Len(result) |-> NewObject(result[i], i)],
     pairs         |-> Absent]

\* a detector that keeps no record of an image without masks
AllRecordsNoEmpty(results) ==
    [img \in {i \in DOMAIN results : results[i] # <<>>} |-> ImageRecord(img, results[img])]

\* all_records after the loop over image_files
AllRecords(results) ==
    [img \in DOMAIN results |-> ImageRecord(img, results[img])]

Idle == pcE = "idle"

\* the record of the last refinement run ends when a stage is invoked
RunForgotten ==
    /\ calls' = {}
    /\ written' = {}
    /\ unread' = {}
    /\ sigCaught' = FALSE
    /\ broke' = FALSE
    /\ saved' = FALSE

\* AnimalDetector.run: a model that does not load (load_model raises), no
\* image file (return), or the whole pass followed by save_json
DetectorRun ==
    /\ Idle
    /\ UNCHANGED <<folder, data, show, pcE, imgPos, objPos, is_modified, eyes_data>>
    /\ UNCHANGED maskVars
    /\ UNCHANGED verVars
    /\ RunForgotten
    /\ prevFull' = FALSE
    /\ \/ /\ stage' = "detect_abort"
          /\ UNCHANGED json_file
       \/ /\ folder = {}
          /\ stage' = "detect_nofiles"
          /\ UNCHANGED json_file
       \/ /\ folder # {}
          /\ \E results \in [folder -> UNION {YoloOutputs(i) : i \in folder}] :
                /\ \A i \in folder : results[i] \in YoloOutputs(i)
                /\ json_file' = Json(AllRecords(results))
          /\ stage' = IF json_file.state = "json" THEN "redetect" ELSE "detect"

\* AnimalDataSelector.download_images: a file is added, none is removed
DownloadImage ==
    /\ Idle
    /\ \E img \in Images \ folder : folder' = folder \cup {img}
    /\ UNCHANGED <<json_file, stage, data, show, pcE, imgPos, objPos, is_modified,
                   eyes_data, calls, written, unread, sigCaught, broke, saved,
                   prevFull>>
    /\ UNCHANGED maskVars
    /\ UNCHANGED verVars

----------------------------------------------------------------------------
(* AnimalEyePipeline, eyes_extractor.py *)

\* a square contour of side 2 around (cx, cy), as cv2.findContours gives it
EyeSquare(cx, cy) ==
    <<<<cx - 1, cy - 1>>, <<cx + 1, cy - 1>>, <<cx + 1, cy + 1>>, <<cx - 1, cy + 1>>>>

\* a contour of three points
TinyContour == <<<<1, 1>>, <<2, 1>>, <<1, 2>>>>

\* output["masks"] of the refinement detector: none is masks None, and each
\* mask is held as the external contours cv2.findContours finds in it
SamOutputs ==
    {[none |-> TRUE,  masks |-> <<>>],
     [none |-> FALSE, masks |-> <<>>],
     [none |-> FALSE, masks |-> <<<<TinyContour>>>>],
     [none |-> FALSE, masks |-> <<<<EyeSquare(6, 2)>>, <<EyeSquare(2, 2), TinyContour>>>>],
     [none |-> FALSE, masks |-> <<<<EyeSquare(2, 2)>>, <<EyeSquare(6, 2)>>,
                                  <<EyeSquare(4, 6)>>>>]}

\* the inner loop "for cnt in contours": keep contours of more than 3 points
RECURSIVE KeepContours(_)
KeepContours(contours) ==
    IF contours = <<>> THEN <<>>
    ELSE (IF Len(Head(contours)) > 3 THEN <<Dumps(Head(contours))>> ELSE <<>>)
         \o KeepContours(Tail(contours))

\* the loop "for mask in masks"
RECURSIVE CollectMasks(_)
CollectMasks(masks) ==
    IF masks = <<>> THEN <<>>
    ELSE KeepContours(Head(masks)) \o CollectMasks(Tail(masks))

\* what _process_sam_eyes returns for a detector output
EyesSegmentationStrings(output) ==
    IF output.none \/ Len(output.masks) = 0 THEN <<>> ELSE CollectMasks(output.masks)

\* a load that takes a missing or unparsable document for an empty one
LoadJsonLenient(file) ==
    [ok |-> TRUE, doc |-> IF file.state = "json" THEN file.doc ELSE EmptyDoc]

\* _load_json: FileNotFoundError or a JSON error, or the mapping
LoadJson(file) ==
    IF file.state = "json" THEN [ok |-> TRUE, doc |-> file.doc]
    ELSE [ok |-> FALSE, doc |-> EmptyDoc]

\* a check that skips nothing
HasEyesNever(obj) == FALSE

\* a check of the key alone: "eyes" in obj
HasEyesKey(obj) == TRUE

\* "eyes" in obj and obj["eyes"]
HasEyes(obj) == obj.eyes # <<>>

CurImg == Keys(data)[imgPos]

\* all_objects = record.get("objects", [])
AllObjects == data[CurImg].objects

\* __init__ (with _load_json and the checkpoint) and the entry of run
EyeInit ==
    /\ Idle
    /\ UNCHANGED <<folder, json_file, eyes_data, objPos, is_modified>>
    /\ UNCHANGED maskVars
    /\ UNCHANGED verVars
    /\ RunForgotten
    /\ \/ /\ ~LoadJson(json_file).ok
          /\ stage' = "eyes_abort"
          /\ prevFull' = FALSE
          /\ UNCHANGED <<data, show, pcE, imgPos>>
       \/ /\ LoadJson(json_file).ok
          /\ stage' = "eyes_abort"
          /\ prevFull' = FALSE
          /\ UNCHANGED <<data, show, pcE, imgPos>>
       \/ /\ LoadJson(json_file).ok
          /\ data' = LoadJson(json_file).doc
          /\ show' \in BOOLEAN
          /\ stage' = "eyes"
          /\ prevFull' = (stage = "eyes" /\ saved /\ unread = {} /\ ~sigCaught /\ ~broke)
          /\ pcE' = "image"
          /\ imgPos' = 1

\* the loop is left: its variables img_name, record, i, obj, is_modified are dead
LoopLeft ==
    /\ imgPos' = 0
    /\ objPos' = 0
    /\ is_modified' = FALSE

\* the next iteration of the loop over self.data.items()
NextImage ==
    /\ imgPos' = imgPos + 1
    /\ objPos' = 0
    /\ is_modified' = FALSE
    /\ pcE' = "image"

\* an unreadable image that is processed all the same
UnreadableProcessed ==
    /\ unread' = unread \cup {CurImg}
    /\ pcE' = "obj"
    /\ objPos' = 1
    /\ UNCHANGED <<imgPos, is_modified>>

\* "if img_bgr is None: continue"
UnreadableImage ==
    /\ unread' = unread \cup {CurImg}
    /\ NextImage

\* the head of the loop over self.data.items(): cv2.imread
EyeImage ==
    /\ pcE = "image"
    /\ UNCHANGED <<folder, json_file, stage, data, show, eyes_data, calls, written,
                   sigCaught, broke, saved, prevFull>>
    /\ UNCHANGED maskVars
    /\ UNCHANGED verVars
    /\ \/ /\ imgPos > Len(Keys(data))
          /\ pcE' = "save"
          /\ LoopLeft
          /\ UNCHANGED unread
       \/ /\ imgPos <= Len(Keys(data))
          /\ UnreadableImage
       \/ /\ imgPos <= Len(Keys(data))
          /\ pcE' = "obj"
          /\ objPos' = 1
          /\ is_modified' = FALSE
          /\ UNCHANGED <<imgPos, unread>>

\* the head of the loop over all_objects: the skip, or _process_sam_eyes; after
\* the last object the window is shown and ESC leaves the loop
EyeObj ==
    /\ pcE = "obj"
    /\ UNCHANGED <<folder, json_file, stage, data, show, written, unread, sigCaught,
                   saved, prevFull>>
    /\ UNCHANGED maskVars
    /\ UNCHANGED verVars
    /\ \/ /\ objPos > Len(AllObjects)
          /\ NextImage
          /\ UNCHANGED <<eyes_data, calls, broke>>
       \/ /\ objPos > Len(AllObjects)
          /\ is_modified /\ show
          /\ broke' = TRUE
          /\ pcE' = "save"
          /\ LoopLeft
          /\ UNCHANGED <<eyes_data, calls>>
       \/ /\ objPos <= Len(AllObjects)
          /\ HasEyes(AllObjects[objPos])
          /\ objPos' = objPos + 1
          /\ UNCHANGED <<pcE, imgPos, is_modified, eyes_data, calls, broke>>
       \/ /\ objPos <= Len(AllObjects)
          /\ ~HasEyes(AllObjects[objPos])
          /\ \E output \in SamOutputs : eyes_data' = EyesSegmentationStrings(output)
          /\ calls' = calls \cup {<<CurImg, objPos>>}
          /\ pcE' = "write"
          /\ UNCHANGED <<imgPos, objPos, is_modified, broke>>

\* a store that also resets the object's box
StoreEyesResetBox(d, img, i, eyes) ==
    [d EXCEPT ![img].objects[i].eyes = eyes, ![img].objects[i].bbox = <<0, 0, 0, 0>>]

\* a store that drops the result
StoreEyesDropped(d, img, i, eyes) == d

\* obj["eyes"] = eyes_data
StoreEyes(d, img, i, eyes) ==
    [d EXCEPT ![img].objects[i].eyes = eyes]

\* obj["eyes"] = eyes_data; is_modified = True
EyeWrite ==
    /\ pcE = "write"
    /\ data' = StoreEyes(data, CurImg, objPos, eyes_data)
    /\ written' = written \cup {<<CurImg, objPos, eyes_data>>}
    /\ is_modified' = TRUE
    /\ objPos' = objPos + 1
    /\ eyes_data' = <<>>
    /\ pcE' = "obj"
    /\ UNCHANGED <<folder, json_file, stage, show, imgPos, calls, unread, sigCaught,
                   broke, saved, prevFull>>
    /\ UNCHANGED maskVars
    /\ UNCHANGED verVars

\* a run without the finally clause: the interrupt ends it
AfterInterruptNoFinally == "idle"

\* a run that swallows the interrupt and goes on
AfterInterruptContinue == pcE

\* where run goes when KeyboardInterrupt is raised in the loop
AfterInterrupt == "save"

\* KeyboardInterrupt raised in the try block of run: the except clause, then finally
EyeInterrupt ==
    /\ pcE \in {"image", "obj", "write"}
    /\ sigCaught' = TRUE
    /\ pcE' = AfterInterrupt
    /\ IF pcE' = pcE
       THEN UNCHANGED <<imgPos, objPos, is_modified, eyes_data>>
       ELSE LoopLeft /\ eyes_data' = <<>>
    /\ UNCHANGED <<folder, json_file, stage, data, show, calls, written, unread, broke,
                   saved, prevFull>>
    /\ UNCHANGED maskVars
    /\ UNCHANGED verVars

\* save_results: json.dump(self.data) over the output file
SaveResults(d) == Json(d)

\* the finally clause of run: save_results; the pipeline object is then dropped
EyeSave ==
    /\ pcE = "save"
    /\ json_file' = SaveResults(data)
    /\ saved' = TRUE
    /\ pcE' = "idle"
    /\ data' = EmptyDoc
    /\ show' = FALSE
    /\ UNCHANGED <<folder, stage, imgPos, objPos, is_modified, eyes_data, calls,
                   written, unread, sigCaught, broke, prevFull>>
    /\ UNCHANGED maskVars
    /\ UNCHANGED verVars

----------------------------------------------------------------------------
(* AnimalMeasurementTool, measurement_tool.py *)

Abs(n) == IF n < 0 THEN -n ELSE n

\* int(a / b): the quotient cut towards zero
TruncDiv(a, b) ==
    IF (a >= 0) = (b > 0) THEN Abs(a) \div Abs(b) ELSE -(Abs(a) \div Abs(b))

\* the largest r in lo..hi with r * r <= n
RECURSIVE SqrtSearch(_, _, _)
SqrtSearch(n, lo, hi) ==
    IF lo >= hi THEN lo
    ELSE LET mid == (lo + hi + 1) \div 2
         IN  IF mid * mid <= n THEN SqrtSearch(n, mid, hi) ELSE SqrtSearch(n, lo, mid - 1)

\* the integer square root (the search stays below the square root of 2^31)
ISqrt(n) == SqrtSearch(n, 0, IF n < 46340 THEN n ELSE 46340)

\* round(math.sqrt(d2), 2), in hundredths
RoundedSqrt(d2) == (ISqrt(40000 * d2) + 1) \div 2

\* _calculate_euclidean_distance, squared
SquaredDistance(p1, p2) ==
    (p1[1] - p2[1]) * (p1[1] - p2[1]) + (p1[2] - p2[2]) * (p1[2] - p2[2])

\* the point before point i of a closed contour
Prev(pts, i) == IF i = 1 THEN pts[Len(pts)] ELSE pts[i - 1]

\* cv2.moments of a contour, by Green's formula: twice the signed area, and
\* six times the signed first moments
RECURSIVE GreenSum(_, _, _)
GreenSum(pts, i, which) ==
    IF i = 0 THEN 0
    ELSE LET p == Prev(pts, i)
             q == pts[i]
             dxy == p[1] * q[2] - q[1] * p[2]
         IN  GreenSum(pts, i - 1, which)
             + (CASE which = "a00" -> dxy
                  [] which = "a10" -> dxy * (p[1] + q[1])
                  [] which = "a01" -> dxy * (p[2] + q[2]))

RECURSIVE CoordSum(_, _, _)
CoordSum(pts, i, k) == IF i = 0 THEN 0 ELSE pts[i][k] + CoordSum(pts, i - 1, k)

\* _get_centroid: m10/m00 and m01/m00 cut to int, or the mean of the points
\* when m00 is zero
GetCentroid(seg_data) ==
    LET pts == Loads(seg_data)
        a00 == GreenSum(pts, Len(pts), "a00")
    IN  IF a00 # 0
        THEN <<TruncDiv(GreenSum(pts, Len(pts), "a10"), 3 * a00),
               TruncDiv(GreenSum(pts, Len(pts), "a01"), 3 * a00)>>
        ELSE <<TruncDiv(CoordSum(pts, Len(pts), 1), Len(pts)),
               TruncDiv(CoordSum(pts, Len(pts), 2), Len(pts))>>

\* a labelling that keeps the order of the contours
SortByXKept(c1, c2) == <<c1, c2>>

\* centroids.sort(key=lambda p: p[0]): a stable sort of two points
SortByX(c1, c2) == IF c2[1] < c1[1] THEN <<c2, c1>> ELSE <<c1, c2>>

\* a labelling that takes the first two of two or more contours
TmpEyesFirstTwo(obj) ==
    IF Len(obj.eyes) >= 2
    THEN Some(SortByX(GetCentroid(obj.eyes[1]), GetCentroid(obj.eyes[2])))
    ELSE Absent

\* _preprocess_coordinates for one object: <<_tmp_eye_L, _tmp_eye_R>> or nothing
TmpEyes(obj) ==
    IF Len(obj.eyes) = 2
    THEN Some(SortByX(GetCentroid(obj.eyes[1]), GetCentroid(obj.eyes[2])))
    ELSE Absent

\* part A of _calculate_all_metrics for one object
WithMetrics(obj) ==
    IF TmpEyes(obj) # Absent
    THEN LET lr == TmpEyes(obj)[1]
         IN  [obj EXCEPT !.eyes_dist = Some(RoundedSqrt(SquaredDistance(lr[1], lr[2]))),
                         !.eye_L_center = Some(lr[1]),
                         !.eye_R_center = Some(lr[2])]
    ELSE obj

\* objs_with_eyes: the objects that got metrics, in order
ObjsWithEyes(objects) == SelectSeq(objects, LAMBDA o : TmpEyes(o) # Absent)

\* a pair distance from the left landmark of the first object
PairRecordFromLeft(obj_a, obj_b) ==
    [obj_1_id |-> obj_a.object_id,
     obj_2_id |-> obj_b.object_id,
     right_eye_dist |-> RoundedSqrt(SquaredDistance(obj_a.eye_L_center[1],
                                                    obj_b.eye_R_center[1]))]

\* the dict appended to record["pairs"]
PairRecord(obj_a, obj_b) ==
    [obj_1_id |-> obj_a.object_id,
     obj_2_id |-> obj_b.object_id,
     right_eye_dist |-> RoundedSqrt(SquaredDistance(obj_a.eye_R_center[1],
                                                    obj_b.eye_R_center[1]))]

\* itertools.combinations(objs, 2) from position i on, in its order
RECURSIVE PairsFrom(_, _, _)
PairsFrom(objs, i, j) ==
    IF i >= Len(objs) THEN <<>>
    ELSE IF j > Len(objs) THEN PairsFrom(objs, i + 1, i + 2)
    ELSE <<PairRecord(objs[i], objs[j])>> \o PairsFrom(objs, i, j + 1)

\* a pass that appends to the pair list it finds
MeasuredRecordAppended(record) ==
    LET objects == [i \in 1..Len(record.objects) |-> WithMetrics(record.objects[i])]
        old == IF record.pairs = Absent THEN <<>> ELSE record.pairs[1]
    IN  [record EXCEPT !.objects = objects,
                       !.pairs = Some(old \o PairsFrom(ObjsWithEyes(objects), 1, 2))]

\* _calculate_all_metrics for one record
MeasuredRecord(record) ==
    LET objects == [i \in 1..Len(record.objects) |-> WithMetrics(record.objects[i])]
    IN  [record EXCEPT !.objects = objects,
                       !.pairs = Some(PairsFrom(ObjsWithEyes(objects), 1, 2))]

\* _preprocess_coordinates then _calculate_all_metrics
ProcessedData(raw_data) == [img \in DOMAIN raw_data |-> MeasuredRecord(raw_data[img])]

\* AnimalMeasurementTool.run: a missing file (return), an unparsable one
\* (json.load raises), or the pass followed by save_final_json
MeasurementRun ==
    /\ Idle
    /\ UNCHANGED <<folder, data, show, pcE, imgPos, objPos, is_modified, eyes_data>>
    /\ UNCHANGED maskVars
    /\ UNCHANGED verVars
    /\ RunForgotten
    /\ prevFull' = FALSE
    /\ \/ /\ json_file.state = "missing"
          /\ stage' = "measure_abort"
          /\ UNCHANGED json_file
       \/ /\ json_file.state = "corrupt"
          /\ stage' = "measure_abort"
          /\ UNCHANGED json_file
       \/ /\ json_file.state = "json"
          /\ json_file' = Json(ProcessedData(json_file.doc))
          /\ stage' = "measure"

----------------------------------------------------------------------------
(* The mutual-exclusion masking of _process_sam_eyes, eyes_extractor.py 70-93 *)

Pixels == (0..(GridSize - 1)) \X (0..(GridSize - 1))

\* twice the signed area of the triangle a, b, p
Cross(a, b, p) == (b[1] - a[1]) * (p[2] - a[2]) - (b[2] - a[2]) * (p[1] - a[1])

Min(a, b) == IF a < b THEN a ELSE b
Max(a, b) == IF a < b THEN b ELSE a

\* p lies on the segment from a to b
OnSegment(p, a, b) ==
    /\ Cross(a, b, p) = 0
    /\ Min(a[1], b[1]) <= p[1] /\ p[1] <= Max(a[1], b[1])
    /\ Min(a[2], b[2]) <= p[2] /\ p[2] <= Max(a[2], b[2])

\* the ray from p to the right crosses the edge from a to b
RayCrosses(p, a, b) ==
    /\ (a[2] > p[2]) # (b[2] > p[2])
    /\ IF b[2] > a[2] THEN Cross(a, b, p) > 0 ELSE Cross(a, b, p) < 0

\* p lies in the closed polygon pts (on an edge, or inside by the even-odd rule)
InPolygon(p, pts) ==
    \/ \E i \in 1..Len(pts) : OnSegment(p, Prev(pts, i), pts[i])
    \/ Cardinality({i \in 1..Len(pts) : RayCrosses(p, Prev(pts, i), pts[i])}) % 2 = 1

\* cv2.fillPoly(img, [pts], (0, 0, 0))
FillPoly(img, pts) == [p \in Pixels |-> IF InPolygon(p, pts) THEN 0 ELSE img[p]]

\* "segmentation" in other_obj and other_obj["segmentation"]
HasSegmentation(other_obj) == other_obj.segmentation # EmptyString

\* json.loads and np.array(seg, dtype=np.int32).reshape(-1, 2) raise nothing
PointsOk(seg) == ParseOk(seg) /\ \A i \in 1..Len(Loads(seg)) : Len(Loads(seg)[i]) = 2

\* np.array(seg, dtype=np.int32): the stored float coordinates (half pixels
\* here) cut to whole pixels
IntPoints(seg) ==
    [i \in 1..Len(Loads(seg)) |-> <<TruncDiv(Loads(seg)[i][1], 2), TruncDiv(Loads(seg)[i][2], 2)>>]

\* a handler that lets the exception through
ParseErrorRaised(img) == [ok |-> FALSE, img |-> img]

\* "except: pass" around the parse of one sibling
ParseErrorPassed(img) == [ok |-> TRUE, img |-> img]

\* a loop body that fills nothing
BlackOutSkipped(img, other_obj) == [ok |-> TRUE, img |-> img]

\* the body of the loop over all_objects for one sibling
BlackOut(img, other_obj) ==
    IF ~HasSegmentation(other_obj) THEN [ok |-> TRUE, img |-> img]
    ELSE IF PointsOk(other_obj.segmentation)
         THEN [ok |-> TRUE, img |-> FillPoly(img, IntPoints(other_obj.segmentation))]
         ELSE ParseErrorPassed(img)

\* clean_img after the siblings other_idx..Len(all_objects) are handled
RECURSIVE CleanImg(_, _, _, _)
CleanImg(img, all_objects, obj_index, other_idx) ==
    IF other_idx > Len(all_objects) THEN [ok |-> TRUE, img |-> img]
    ELSE IF other_idx = obj_index THEN CleanImg(img, all_objects, obj_index, other_idx + 1)
    ELSE LET r == BlackOut(img, all_objects[other_idx])
         IN  IF r.ok THEN CleanImg(r.img, all_objects, obj_index, other_idx + 1) ELSE r

\* masked_input = zeros; masked_input[y1:y2, x1:x2] = clean_img[y1:y2, x1:x2]
CropToBox(clean_img, bbox) ==
    [p \in Pixels |->
        IF bbox[1] <= p[1] /\ p[1] < bbox[3] /\ bbox[2] <= p[2] /\ p[2] < bbox[4]
        THEN clean_img[p] ELSE 0]

\* the image handed to the detector for the target obj_index
MaskedInput(img, all_objects, obj_index) ==
    LET r == CleanImg(img, all_objects, obj_index, 1)
    IN  [ok |-> r.ok, img |-> CropToBox(r.img, all_objects[obj_index].bbox)]

\* a contour of float corners, in half pixels
FloatRect(x1, y1, x2, y2) == Dumps(<<<<x1, y1>>, <<x2, y1>>, <<x2, y2>>, <<x1, y2>>>>)

\* a string that parses to a list that is no list of pairs
RaggedString == Dumps(<<<<1, 1>>, <<3>>>>)

MaskSegmentations ==
    {FloatRect(1, 1, 3, 3), FloatRect(4, 2, 7, 7), BadString, RaggedString, EmptyString}

\* the box of the object at position k of all_objects
MaskBox(k) == IF k % 2 = 1 THEN <<0, 0, 3, 3>> ELSE <<1, 1, GridSize, GridSize>>

\* the object lists of n objects
MaskObjectLists(n) ==
    {[k \in 1..n |-> [bbox |-> MaskBox(k), segmentation |-> segs[k]]] :
        segs \in [1..n -> MaskSegmentations]}

MaskImages ==
    {[p \in Pixels |-> 1], [p \in Pixels |-> 1 + ((p[1] + p[2]) % 2)]}

\* no verifier is running
VerIdle ==
    /\ gt_rows = <<>>
    /\ sys_individual_map = <<>>
    /\ sys_pair_map = <<>>
    /\ rowPos = 0
    /\ actual = <<>>
    /\ verdict = "none"
    /\ total_error = 0
    /\ match_count = 0
    /\ miss_count = 0
    /\ mae = <<>>
    /\ pcV = "off"

\* the pipeline is not running while the masking is checked alone
PipeOff ==
    /\ folder = {}
    /\ json_file = Missing
    /\ stage = "none"
    /\ data = EmptyDoc
    /\ show = FALSE
    /\ pcE = "idle"
    /\ imgPos = 0
    /\ objPos = 0
    /\ is_modified = FALSE
    /\ eyes_data = <<>>
    /\ calls = {}
    /\ written = {}
    /\ unread = {}
    /\ sigCaught = FALSE
    /\ broke = FALSE
    /\ saved = FALSE
    /\ prevFull = FALSE

\* the arguments of one call of _process_sam_eyes
MaskInit ==
    /\ PipeOff
    /\ VerIdle
    /\ mkImg \in MaskImages
    /\ \E n \in 1..(MaxSiblings + 1) : mkObjs \in MaskObjectLists(n)
    /\ mkIdx \in 1..Len(mkObjs)
    /\ mkInput = <<>>
    /\ mkPc = "start"

\* step 1 of _process_sam_eyes (lines 75-88)
MaskBuild ==
    /\ mkPc = "start"
    /\ LET r == MaskedInput(mkImg, mkObjs, mkIdx)
       IN  IF r.ok
           THEN mkInput' = r.img /\ mkPc' = "masked"
           ELSE mkInput' = <<>> /\ mkPc' = "error"
    /\ UNCHANGED <<mkImg, mkObjs, mkIdx>>
    /\ UNCHANGED pipeVars
    /\ UNCHANGED verVars

\* step 2 of _process_sam_eyes (lines 90-93): the detector is called on masked_input
MaskDetect ==
    /\ mkPc = "masked"
    /\ \E output \in SamOutputs : eyes_data' = EyesSegmentationStrings(output)
    /\ mkPc' = "done"
    /\ UNCHANGED <<mkImg, mkObjs, mkIdx, mkInput>>
    /\ UNCHANGED <<folder, json_file, stage, data, show, pcE, imgPos, objPos, is_modified,
                   calls, written, unread, sigCaught, broke, saved, prevFull>>
    /\ UNCHANGED verVars

MaskNext == MaskBuild \/ MaskDetect

SpecMask == MaskInit /\ [][MaskNext]_vars

----------------------------------------------------------------------------
(* The pipeline *)

PipeInit ==
    /\ folder \in SUBSET Images
    /\ json_file \in {Missing, Corrupt}
    /\ stage = "none"
    /\ data = EmptyDoc
    /\ show = FALSE
    /\ pcE = "idle"
    /\ imgPos = 0
    /\ objPos = 0
    /\ is_modified = FALSE
    /\ eyes_data = <<>>
    /\ calls = {}
    /\ written = {}
    /\ unread = {}
    /\ sigCaught = FALSE
    /\ broke = FALSE
    /\ saved = FALSE
    /\ prevFull = FALSE

MaskIdle ==
    /\ mkImg = <<>>
    /\ mkObjs = <<>>
    /\ mkIdx = 0
    /\ mkInput = <<>>
    /\ mkPc = "off"

Init == PipeInit /\ MaskIdle /\ VerIdle

Next ==
    \/ DownloadImage
    \/ DetectorRun
    \/ EyeInit
    \/ EyeImage
    \/ EyeObj
    \/ EyeWrite
    \/ EyeInterrupt
    \/ EyeSave
    \/ MeasurementRun

Spec == Init /\ [][Next]_vars

----------------------------------------------------------------------------
(* The measurement pass alone *)

\* a contour that runs along a diagonal and back: its m00 is zero
ThinContour == <<<<10, 10>>, <<11, 11>>, <<12, 12>>, <<11, 11>>>>

\* a contour whose centroid (1.5, 1) is no whole pixel
OffContour == <<<<0, 0>>, <<3, 0>>, <<3, 2>>, <<0, 2>>>>

\* the "eyes" lists of the objects of a measurement input
MeasureEyes ==
    {<<>>,
     <<Dumps(EyeSquare(50, 50))>>,
     <<Dumps(EyeSquare(50, 50)), Dumps(EyeSquare(70, 50))>>,
     <<Dumps(EyeSquare(70, 50)), Dumps(EyeSquare(50, 50))>>,
     <<Dumps(EyeSquare(150, 50)), Dumps(EyeSquare(170, 50))>>,
     <<Dumps(EyeSquare(170, 50)), Dumps(EyeSquare(150, 50))>>,
     <<Dumps(EyeSquare(50, 50)), Dumps(EyeSquare(50, 50))>>,
     <<Dumps(EyeSquare(50, 50)), Dumps(EyeSquare(70, 50)), Dumps(EyeSquare(150, 50))>>,
     <<Dumps(ThinContour), Dumps(OffContour)>>}

\* the record of the detector for Len(eyes) objects, after a refinement run
\* that stored eyes[i] for object i
MeasureRecord(eyes) ==
    LET rec == ImageRecord(ImageOrder[1], [k \in 1..Len(eyes) |-> YoloDetection(k)])
    IN  [rec EXCEPT !.objects =
            [i \in 1..Len(eyes) |-> [rec.objects[i] EXCEPT !.eyes = eyes[i]]]]

\* the documents of one image handed to the measurement
MeasureDocs ==
    {[img \in {ImageOrder[1]} |-> MeasureRecord(eyes)] :
        eyes \in UNION {[1..n -> MeasureEyes] : n \in 0..MaxMeasured}}

\* the stages are idle and the document is one the measurement may be given
MeasureInit ==
    /\ folder = {ImageOrder[1]}
    /\ json_file \in {Missing, Corrupt} \cup {Json(d) : d \in MeasureDocs}
    /\ stage = "none"
    /\ data = EmptyDoc
    /\ show = FALSE
    /\ pcE = "idle"
    /\ imgPos = 0
    /\ objPos = 0
    /\ is_modified = FALSE
    /\ eyes_data = <<>>
    /\ calls = {}
    /\ written = {}
    /\ unread = {}
    /\ sigCaught = FALSE
    /\ broke = FALSE
    /\ saved = FALSE
    /\ prevFull = FALSE
    /\ MaskIdle
    /\ VerIdle

MeasureNext == MeasurementRun

SpecMeasure == MeasureInit /\ [][MeasureNext]_vars

----------------------------------------------------------------------------
(* TestVerifier, verify_results.py *)

\* rows of the ground-truth CSV, at most
MaxRows == 2

\* str(n): the decimal digits of n
RECURSIVE Str(_)
Str(n) == IF n < 10 THEN <<n>> ELSE Str(n \div 10) \o <<n % 10>>

\* s < t as Python orders strings (of digits)
RECURSIVE StrLess(_, _)
StrLess(s, t) ==
    IF t = <<>> THEN FALSE
    ELSE IF s = <<>> THEN TRUE
    ELSE IF Head(s) # Head(t) THEN Head(s) < Head(t)
    ELSE StrLess(Tail(s), Tail(t))

\* tuple(sorted([id1, id2]))
SortedIds(id1, id2) == IF StrLess(id2, id1) THEN <<id2, id1>> ELSE <<id1, id2>>

\* record.get("pairs", [])
PairsOf(record) == IF record.pairs = Absent THEN <<>> ELSE record.pairs[1]

\* the key of the pair map for a pair of the document
PairKey(img_name, pair) == <<img_name, SortedIds(Str(pair.obj_1_id), Str(pair.obj_2_id))>>

\* the largest element of a non-empty set of numbers
Last(S) == CHOOSE k \in S : \A j \in S : j <= k

\* self.sys_individual_map after _load_system_json: a later object of the
\* same key replaces an earlier one
IndividualMap(d) ==
    LET At(key) == {i \in 1..Len(d[key[1]].objects) :
                       /\ Str(d[key[1]].objects[i].object_id) = key[2]
                       /\ d[key[1]].objects[i].eyes_dist # Absent}
        keys == UNION {{<<img, Str(d[img].objects[i].object_id)>> :
                           i \in {j \in 1..Len(d[img].objects) :
                                     d[img].objects[j].eyes_dist # Absent}} :
                       img \in DOMAIN d}
    IN  [key \in keys |-> d[key[1]].objects[Last(At(key))].eyes_dist[1]]

\* self.sys_pair_map after _load_system_json
PairMap(d) ==
    LET At(key) == {k \in 1..Len(PairsOf(d[key[1]])) :
                       PairKey(key[1], PairsOf(d[key[1]])[k]) = key}
        keys == UNION {{PairKey(img, PairsOf(d[img])[k]) : k \in 1..Len(PairsOf(d[img]))} :
                       img \in DOMAIN d}
    IN  [key \in keys |-> PairsOf(d[key[1]])[Last(At(key))].right_eye_dist]

\* dict.get(key): the value or None
Get(map, key) == IF key \in DOMAIN map THEN Some(map[key]) ELSE Absent

\* a pair lookup that takes the identifiers as the row gives them
PairLookupUnsorted(pair_map, img, id1, id2) == Get(pair_map, <<img, <<id1, id2>>>>)

\* self.sys_pair_map.get((img, sorted_ids))
PairLookup(pair_map, img, id1, id2) == Get(pair_map, <<img, SortedIds(id1, id2)>>)

\* actual for a row, None for a row of another type
RowActual(row, individual_map, pair_map) ==
    IF row.Type = "Individual" THEN Get(individual_map, <<row.Image_Name, row.Obj_ID_1>>)
    ELSE IF row.Type = "Pair"
         THEN PairLookup(pair_map, row.Image_Name, row.Obj_ID_1, row.Obj_ID_2)
         ELSE Absent

\* a classification that takes a computed zero for a match
RowVerdictZeroMatches(a, expect) == IF a = Absent THEN "miss" ELSE "match"

\* what the loop body does with actual and expect
RowVerdict(a, expect) ==
    IF a = Absent THEN "miss"
    ELSE IF a[1] = 0 /\ expect # 0 THEN "fail"
    ELSE "match"

\* a row of the CSV; Expected_Dist is in hundredths, or Absent for a text
\* float() rejects
Row(img, type, id1, id2, expect) ==
    [Image_Name |-> img, Type |-> type, Obj_ID_1 |-> id1, Obj_ID_2 |-> id2,
     Expected_Dist |-> expect]

GtRowPool ==
    {Row(ImageOrder[1], "Individual", Str(0), <<>>, Some(2000)),
     Row(ImageOrder[1], "Individual", Str(1), <<>>, Some(2000)),
     Row(ImageOrder[1], "Individual", Str(0), <<>>, Some(0)),
     Row(ImageOrder[1], "Individual", Str(0), <<>>, Absent),
     Row(ImageOrder[2], "Individual", Str(0), <<>>, Some(2000)),
     Row(ImageOrder[1], "Pair", Str(0), Str(1), Some(10000)),
     Row(ImageOrder[1], "Pair", Str(1), Str(0), Some(10000)),
     Row(ImageOrder[1], "Pair", Str(9), Str(10), Some(2500)),
     Row(ImageOrder[1], "Pair", Str(10), Str(9), Some(2000)),
     Row(ImageOrder[1], "Group", Str(0), Str(1), Some(2000))}

\* a document of one image
OneImage(record) == [img \in {ImageOrder[1]} |-> record]

\* the measured document of two objects with two eyes each
TwoObjectsDoc ==
    ProcessedData(OneImage(MeasureRecord(
        <<<<Dumps(EyeSquare(50, 50)), Dumps(EyeSquare(70, 50))>>,
          <<Dumps(EyeSquare(170, 50)), Dumps(EyeSquare(150, 50))>>>>)))

\* a measured document whose first object has its two eyes at one place
ZeroDistDoc ==
    ProcessedData(OneImage(MeasureRecord(
        <<<<Dumps(EyeSquare(50, 50)), Dumps(EyeSquare(50, 50))>>,
          <<Dumps(EyeSquare(50, 50))>>>>)))

\* a document written by hand, with eyes_dist 22.50 for the first object
HandDoc == [TwoObjectsDoc EXCEPT ![ImageOrder[1]].objects[1].eyes_dist = Some(2250)]

\* the measured document of eleven objects, those of "object_id" 2, 9 and
\* 10 with two eyes
ElevenObjectsDoc ==
    ProcessedData(OneImage(MeasureRecord(
        [k \in 1..11 |->
            CASE k = 3  -> <<Dumps(EyeSquare(50, 50)), Dumps(EyeSquare(70, 50))>>
              [] k = 10 -> <<Dumps(EyeSquare(150, 50)), Dumps(EyeSquare(170, 50))>>
              [] k = 11 -> <<Dumps(EyeSquare(70, 50)), Dumps(EyeSquare(150, 50))>>
              [] OTHER  -> <<>>])))

\* a document no measurement pass has seen
UnmeasuredDoc ==
    OneImage(MeasureRecord(<<<<Dumps(EyeSquare(50, 50)), Dumps(EyeSquare(70, 50))>>>>))

\* the file at sys_json_path
VerifyFiles ==
    {Missing, Corrupt, Json(TwoObjectsDoc), Json(ZeroDistDoc), Json(HandDoc),
     Json(ElevenObjectsDoc), Json(UnmeasuredDoc)}

\* a verifier is constructed; the stages are idle
VerifyInit ==
    /\ folder = {}
    /\ json_file \in VerifyFiles
    /\ stage = "none"
    /\ data = EmptyDoc
    /\ show = FALSE
    /\ pcE = "idle"
    /\ imgPos = 0
    /\ objPos = 0
    /\ is_modified = FALSE
    /\ eyes_data = <<>>
    /\ calls = {}
    /\ written = {}
    /\ unread = {}
    /\ sigCaught = FALSE
    /\ broke = FALSE
    /\ saved = FALSE
    /\ prevFull = FALSE
    /\ MaskIdle
    /\ \E n \in 0..MaxRows : gt_rows \in [1..n -> GtRowPool]
    /\ sys_individual_map = <<>>
    /\ sys_pair_map = <<>>
    /\ rowPos = 0
    /\ actual = <<>>
    /\ verdict = "none"
    /\ total_error = 0
    /\ match_count = 0
    /\ miss_count = 0
    /\ mae = <<>>
    /\ pcV = "start"

\* run, lines 62-68: _load_gt_csv, _load_system_json, the early return
VerifyLoad ==
    /\ pcV = "start"
    /\ UNCHANGED pipeVars
    /\ UNCHANGED maskVars
    /\ UNCHANGED <<gt_rows, rowPos, actual, verdict, total_error, match_count,
                   miss_count, mae>>
    /\ \/ /\ json_file.state = "missing"
          /\ pcV' = "return"
          /\ UNCHANGED <<sys_individual_map, sys_pair_map>>
       \/ /\ json_file.state = "corrupt"
          /\ pcV' = "error"
          /\ UNCHANGED <<sys_individual_map, sys_pair_map>>
       \/ /\ json_file.state = "json"
          /\ sys_individual_map' = IndividualMap(json_file.doc)
          /\ sys_pair_map' = PairMap(json_file.doc)
          /\ pcV' = IF gt_rows = <<>> THEN "return" ELSE "rows"

\* one iteration of "for row in gt_rows", or the end of the loop
VerifyRow ==
    /\ pcV = "rows"
    /\ UNCHANGED pipeVars
    /\ UNCHANGED maskVars
    /\ UNCHANGED <<gt_rows, sys_individual_map, sys_pair_map, mae>>
    /\ \/ /\ rowPos = Len(gt_rows)
          /\ pcV' = "report"
          /\ UNCHANGED <<rowPos, actual, verdict, total_error, match_count, miss_count>>
       \/ /\ rowPos < Len(gt_rows)
          /\ gt_rows[rowPos + 1].Expected_Dist = Absent
          /\ pcV' = "error"
          /\ UNCHANGED <<rowPos, actual, verdict, total_error, match_count, miss_count>>
       \/ /\ rowPos < Len(gt_rows)
          /\ gt_rows[rowPos + 1].Expected_Dist # Absent
          /\ LET row == gt_rows[rowPos + 1]
                 expect == row.Expected_Dist[1]
                 a == RowActual(row, sys_individual_map, sys_pair_map)
             IN  /\ actual' = a
                 /\ verdict' = RowVerdict(a, expect)
                 /\ IF verdict' = "match"
                    THEN /\ total_error' = total_error + Abs(a[1] - expect)
                         /\ match_count' = match_count + 1
                         /\ UNCHANGED miss_count
                    ELSE /\ miss_count' = miss_count + 1
                         /\ UNCHANGED <<total_error, match_count>>
          /\ rowPos' = rowPos + 1
          /\ UNCHANGED pcV

\* a report that divides whatever match_count is
VerifyReportAlwaysDivides ==
    /\ pcV = "report"
    /\ UNCHANGED pipeVars
    /\ UNCHANGED maskVars
    /\ UNCHANGED <<gt_rows, sys_individual_map, sys_pair_map, rowPos, actual, verdict,
                   total_error, match_count, miss_count>>
    /\ mae' = Some(<<total_error, match_count>>)
    /\ pcV' = "done"

\* the report, lines 114-129: mae only when match_count > 0
VerifyReport ==
    /\ pcV = "report"
    /\ UNCHANGED pipeVars
    /\ UNCHANGED maskVars
    /\ UNCHANGED <<gt_rows, sys_individual_map, sys_pair_map, rowPos, actual, verdict,
                   total_error, match_count, miss_count>>
    /\ mae' = IF match_count > 0 THEN Some(<<total_error, match_count>>) ELSE Absent
    /\ pcV' = "done"

VerifyNext == VerifyLoad \/ VerifyRow \/ VerifyReport

SpecVerify == VerifyInit /\ [][VerifyNext]_vars

----------------------------------------------------------------------------
(* Properties of the refinement run *)

\* the objects of a mapping, as <<image, index>>
ObjectsOf(d) == UNION {{<<img, i>> : i \in 1..Len(d[img].objects)} : img \in DOMAIN d}

\* C1: in a refinement run, an object whose "eyes" is non-empty when the loop
\* reaches it (which is: non-empty in the loaded document) is not handed to
\* _process_sam_eyes, and its "eyes" is at the end of the run what it was at
\* the start.
C1_SkipKeepsEyes ==
    pcE # "idle" =>
        \A o \in ObjectsOf(data) :
            json_file.doc[o[1]].objects[o[2]].eyes # <<>> =>
                /\ o \notin calls
                /\ data[o[1]].objects[o[2]].eyes = json_file.doc[o[1]].objects[o[2]].eyes

\* a run at its end that skipped an object after it had written an earlier one
C1_Witness ==
    /\ pcE = "save"
    /\ \E o \in ObjectsOf(data) : \E j \in 1..(o[2] - 1) :
          /\ json_file.doc[o[1]].objects[o[2]].eyes # <<>>
          /\ <<o[1], j, data[o[1]].objects[j].eyes>> \in written
          /\ data[o[1]].objects[j].eyes # <<>>

C3_InterruptStillSaves ==
    /\ sigCaught =>
          \/ /\ pcE = "save"
             /\ \A w \in written : data[w[1]].objects[w[2]].eyes = w[3]
          \/ /\ pcE = "idle"
             /\ saved
             /\ json_file.state = "json"
             /\ \A w \in written : json_file.doc[w[1]].objects[w[2]].eyes = w[3]
    /\ (stage = "eyes" /\ pcE = "idle") => saved

\* an interrupted run that has saved eyes it had found before the signal
C3_Witness ==
    /\ sigCaught
    /\ saved
    /\ \E w \in written : w[3] # <<>> /\ json_file.doc[w[1]].objects[w[2]].eyes = w[3]

\* C4: once the run loop has caught the signal, no detector call is added
\* in that run, and the next step writes the in-memory mapping to the store.
C4_NoCallAfterInterrupt ==
    [][(sigCaught /\ ~saved) => (calls' = calls /\ saved' /\ json_file' = Json(data))]_vars

\* an interrupted and saved run that left an object of a readable image undone
C4_Witness ==
    /\ sigCaught
    /\ saved
    /\ \E o \in ObjectsOf(json_file.doc) :
          /\ json_file.doc[o[1]].objects[o[2]].eyes = <<>>
          /\ o \notin calls
          /\ o[1] \notin unread

\* C5: a record of the persisted document is in the document after every
\* later step of every stage.
C5_RecordsNeverDeleted ==
    [][json_file.state = "json" =>
          (json_file'.state = "json" /\ DOMAIN json_file.doc \subseteq DOMAIN json_file'.doc)]_vars

\* a detection run over an existing document that found no animal in an image
C5_Witness ==
    /\ stage = "redetect"
    /\ DOMAIN json_file.doc = Images
    /\ \E img \in Images : json_file.doc[img].objects = <<>>

\* identifier, class, box and primary contour of every object, and the
\* object sequences, are the same in d1 and d2
SameIdentity(d1, d2) ==
    /\ DOMAIN d1 = DOMAIN d2
    /\ \A img \in DOMAIN d1 :
          /\ Len(d1[img].objects) = Len(d2[img].objects)
          /\ \A i \in 1..Len(d1[img].objects) :
                LET a == d1[img].objects[i]
                    b == d2[img].objects[i]
                IN  /\ a.object_id = b.object_id
                    /\ a.class = b.class
                    /\ a.bbox = b.bbox
                    /\ a.segmentation = b.segmentation

\* d2 is d1 but for the "eyes" of its objects
OnlyEyesDiffer(d1, d2) ==
    \A img \in DOMAIN d1 :
        d2[img] = [d1[img] EXCEPT !.objects =
                      [i \in 1..Len(d1[img].objects) |->
                          [d1[img].objects[i] EXCEPT !.eyes = d2[img].objects[i].eyes]]]

\* d2 is d1 but for the metric fields of its objects and the pair lists
OnlyMetricsDiffer(d1, d2) ==
    \A img \in DOMAIN d1 :
        d2[img] = [d1[img] EXCEPT !.pairs = d2[img].pairs,
                                  !.objects =
                      [i \in 1..Len(d1[img].objects) |->
                          [d1[img].objects[i] EXCEPT
                              !.eyes_dist = d2[img].objects[i].eyes_dist,
                              !.eye_L_center = d2[img].objects[i].eye_L_center,
                              !.eye_R_center = d2[img].objects[i].eye_R_center]]]

\* C6: the write of a refinement run and a measurement run leave identifier,
\* class, box and primary contour of every object and every object sequence
\* as they were; the first changes "eyes" alone, the second the metric
\* fields and the pair lists alone.
C6_LaterStagesKeepIdentity ==
    [][/\ pcE = "save" =>
             /\ json_file'.state = "json"
             /\ SameIdentity(json_file.doc, json_file'.doc)
             /\ OnlyEyesDiffer(json_file.doc, json_file'.doc)
       /\ (pcE = "idle" /\ stage' = "measure") =>
             /\ json_file'.state = "json"
             /\ SameIdentity(json_file.doc, json_file'.doc)
             /\ OnlyMetricsDiffer(json_file.doc, json_file'.doc)]_vars

\* a measured document with a pair: refinement has stored eyes for two
\* objects of an image and measurement has stored their metrics
C6_Witness ==
    /\ stage = "measure"
    /\ \E img \in DOMAIN json_file.doc :
          /\ json_file.doc[img].pairs # Absent
          /\ json_file.doc[img].pairs[1] # <<>>
          /\ \E i \in 1..Len(json_file.doc[img].objects) :
                json_file.doc[img].objects[i].eyes_dist # Absent

\* C9: an image that could not be read in a refinement run gets no detector
\* call, its record stays as loaded, the loop has moved on past it, and the
\* run ends with save_results.
C9_UnreadableImageSkipped ==
    \A img \in unread :
        /\ \A c \in calls : c[1] # img
        /\ pcE \in {"image", "obj", "write"} =>
              \E k \in 1..(imgPos - 1) : Keys(data)[k] = img
        /\ pcE \in {"image", "obj", "write", "save"} => data[img] = json_file.doc[img]
        /\ pcE = "idle" => (saved /\ json_file.state = "json")

\* a saved run that could not read the first image and called the detector
\* for an object of the second
C9_Witness ==
    /\ pcE = "idle"
    /\ saved
    /\ ImageOrder[1] \in unread
    /\ \E c \in calls : c[1] = ImageOrder[2]
    /\ \E i \in 1..Len(json_file.doc[ImageOrder[1]].objects) :
          json_file.doc[ImageOrder[1]].objects[i].eyes = <<>>

\* C10: a refinement or measurement stage invoked on a missing or unparsable
\* document ends at once, with the document, the in-memory mapping and the
\* run position as they were.
C10_LoadFailureAborts ==
    [][(pcE = "idle" /\ json_file.state # "json"
          /\ stage' \in {"eyes", "eyes_abort", "measure", "measure_abort"})
       => (/\ json_file' = json_file
           /\ data' = data
           /\ pcE' = "idle"
           /\ stage' \in {"eyes_abort", "measure_abort"})]_vars

\* a measurement stage that ended on an unparsable document
C10_Witness ==
    /\ stage = "measure_abort"
    /\ json_file = Corrupt

\* the objects stored by obj["eyes"] = eyes_data in this run
WrittenObjects == {<<w[1], w[2]>> : w \in written}

\* every detector result was stored, but for a call the interrupt cut short
\* or a call whose store is the next statement
CallsStored ==
    /\ WrittenObjects \subseteq calls
    /\ Cardinality(written) = Cardinality(WrittenObjects)
    /\ (pcE # "write" /\ ~sigCaught) => WrittenObjects = calls
    /\ Cardinality(calls \ WrittenObjects) <= 1

\* the store step writes the pending result, once, to the object of the call
StoreOnce ==
    (pcE = "write" /\ pcE' = "obj") =>
        /\ <<CurImg, objPos>> \in calls \ WrittenObjects
        /\ written' = written \cup {<<CurImg, objPos, eyes_data>>}
        /\ data'[CurImg].objects[objPos].eyes = eyes_data
        /\ data' = [data EXCEPT ![CurImg].objects[objPos].eyes = eyes_data]

\* C11: in a refinement run, each result the detector returns to the run loop
\* is stored into the object's "eyes" exactly once (a call cut short by the
\* interrupt stores nothing), and a detector output without masks is stored
\* as the empty sequence.
C11_WrittenOnce ==
    /\ [](CallsStored
          /\ \A output \in SamOutputs :
                (output.none \/ Len(output.masks) = 0)
                    => EyesSegmentationStrings(output) = <<>>)
    /\ [][StoreOnce]_vars

\* a run at its end that stored an empty result for one object and a
\* non-empty one for another, every call stored
C11_Witness ==
    /\ pcE = "save"
    /\ ~sigCaught
    /\ \E v, w \in written :
          /\ v[3] = <<>> /\ data[v[1]].objects[v[2]].eyes = <<>>
          /\ w[3] # <<>> /\ data[w[1]].objects[w[2]].eyes = w[3]

\* C18 as stated: in a refinement run after a run that visited every
\* object, an object whose "eyes" that run left empty is not handed to the
\* detector.
C18_EmptySkippedLater ==
    (prevFull /\ pcE \in {"image", "obj", "write", "save"}) =>
        \A o \in ObjectsOf(data) :
            json_file.doc[o[1]].objects[o[2]].eyes = <<>> => o \notin calls

\* C18, amended: in a refinement run after a run that visited every object,
\* the loop, when it reaches an object whose "eyes" that run left empty,
\* does not skip it but hands it to the detector again (unless the
\* interrupt arrives first); the skip is taken for non-empty "eyes" alone.
C18_EmptyQueriedAgain ==
    [][/\ (/\ pcE = "obj"
           /\ prevFull
           /\ objPos <= Len(AllObjects)
           /\ AllObjects[objPos].eyes = <<>>
           /\ ~sigCaught')
          => (pcE' = "write" /\ calls' = calls \cup {<<CurImg, objPos>>})
       /\ (pcE = "obj" /\ pcE' = "obj" /\ objPos' = objPos + 1)
          => (AllObjects[objPos].eyes # <<>> /\ calls' = calls)]_vars

\* the detector was called again, and again found nothing, for an object
\* the earlier run had left empty
C18_Witness ==
    /\ prevFull
    /\ pcE = "write"
    /\ json_file.doc[CurImg].objects[objPos].eyes = <<>>
    /\ <<CurImg, objPos>> \in calls
    /\ eyes_data = <<>>

\* C19: in every persisted document, an object that carries eyes_dist,
\* eye_L_center or eye_R_center has exactly two contours in "eyes".
C19_NoStaleMetrics ==
    json_file.state = "json" =>
        \A o \in ObjectsOf(json_file.doc) :
            LET obj == json_file.doc[o[1]].objects[o[2]]
            IN  (obj.eyes_dist # Absent \/ obj.eye_L_center # Absent
                    \/ obj.eye_R_center # Absent)
                => Len(obj.eyes) = 2

\* a refinement run after a measurement pass has saved three contours for
\* one object while another object of the image keeps its metrics
C19_Witness ==
    /\ stage = "eyes"
    /\ saved
    /\ \E w \in written :
          /\ Len(w[3]) = 3
          /\ json_file.doc[w[1]].objects[w[2]].eyes = w[3]
          /\ json_file.doc[w[1]].objects[w[2]].eyes_dist = Absent
          /\ \E i \in 1..Len(json_file.doc[w[1]].objects) :
                json_file.doc[w[1]].objects[i].eyes_dist # Absent

----------------------------------------------------------------------------
(* Properties of the measurement pass *)

\* C12: after a measurement pass, every object with exactly two contours in
\* "eyes" has eye_L_center and eye_R_center, and the x of the first is at
\* most the x of the second.
C12_LeftNotRightOfRight ==
    stage = "measure" =>
        \A o \in ObjectsOf(json_file.doc) :
            LET obj == json_file.doc[o[1]].objects[o[2]]
            IN  Len(obj.eyes) = 2 =>
                    /\ obj.eye_L_center # Absent
                    /\ obj.eye_R_center # Absent
                    /\ obj.eye_L_center[1][1] <= obj.eye_R_center[1][1]

\* a measured object whose first contour lies right of its second, so the
\* sort swapped the two centroids
C12_Witness ==
    /\ stage = "measure"
    /\ \E o \in ObjectsOf(json_file.doc) :
          LET obj == json_file.doc[o[1]].objects[o[2]]
          IN  /\ Len(obj.eyes) = 2
              /\ GetCentroid(obj.eyes[1])[1] > GetCentroid(obj.eyes[2])[1]
              /\ obj.eye_L_center = Some(GetCentroid(obj.eyes[2]))
              /\ obj.eye_R_center = Some(GetCentroid(obj.eyes[1]))

\* the object of a record with "object_id" id
WithId(record, id) ==
    {i \in 1..Len(record.objects) : record.objects[i].object_id = id}

\* C13: after a measurement pass, an object whose "eyes" holds 0, 1 or more
\* than 2 contours has no eyes_dist, no eye_L_center and no eye_R_center,
\* and no pair of the image names it.
C13_OnlyTwoEyesMeasured ==
    stage = "measure" =>
        \A img \in DOMAIN json_file.doc :
            LET record == json_file.doc[img]
            IN  /\ \A i \in 1..Len(record.objects) :
                      Len(record.objects[i].eyes) # 2 =>
                          /\ record.objects[i].eyes_dist = Absent
                          /\ record.objects[i].eye_L_center = Absent
                          /\ record.objects[i].eye_R_center = Absent
                /\ record.pairs # Absent
                /\ \A k \in 1..Len(record.pairs[1]) :
                      \A id \in {record.pairs[1][k].obj_1_id, record.pairs[1][k].obj_2_id} :
                          /\ WithId(record, id) # {}
                          /\ \A i \in WithId(record, id) : Len(record.objects[i].eyes) = 2

\* a measured image with a pair and an object of three contours that got
\* no metric
C13_Witness ==
    /\ stage = "measure"
    /\ \E img \in DOMAIN json_file.doc :
          /\ json_file.doc[img].pairs[1] # <<>>
          /\ \E i \in 1..Len(json_file.doc[img].objects) :
                /\ Len(json_file.doc[img].objects[i].eyes) > 2
                /\ json_file.doc[img].objects[i].eyes_dist = Absent

\* the positions of the objects of a record with exactly two contours
Qualifying(record) == {i \in 1..Len(record.objects) : Len(record.objects[i].eyes) = 2}

\* C14: after a measurement pass, the pair list of an image holds exactly
\* one record for each two distinct qualifying objects, n(n-1)/2 in all,
\* naming the earlier object first; a further pass over the measured
\* document gives the same document.
C14_PairsRebuilt ==
    stage = "measure" =>
        /\ \A img \in DOMAIN json_file.doc :
              LET record == json_file.doc[img]
                  pairs == record.pairs[1]
                  n == Cardinality(Qualifying(record))
              IN  /\ 2 * Len(pairs) = n * (n - 1)
                  /\ \A i, j \in Qualifying(record) :
                        i < j =>
                            /\ Cardinality({k \in 1..Len(pairs) :
                                      /\ pairs[k].obj_1_id = record.objects[i].object_id
                                      /\ pairs[k].obj_2_id = record.objects[j].object_id}) = 1
                            /\ \A k \in 1..Len(pairs) :
                                  ~ /\ pairs[k].obj_1_id = record.objects[j].object_id
                                    /\ pairs[k].obj_2_id = record.objects[i].object_id
        /\ ProcessedData(json_file.doc) = json_file.doc

\* a measured image of three qualifying objects and three pairs
C14_Witness ==
    /\ stage = "measure"
    /\ \E img \in DOMAIN json_file.doc :
          /\ Cardinality(Qualifying(json_file.doc[img])) = 3
          /\ Len(json_file.doc[img].pairs[1]) = 3

\* the contours of obj are squares centred at (x1, y) and (x2, y), in either order
SquaresAt(obj, x1, x2, y) ==
    /\ Len(obj.eyes) = 2
    /\ {obj.eyes[1], obj.eyes[2]} = {Dumps(EyeSquare(x1, y)), Dumps(EyeSquare(x2, y))}

\* C16: for an image of two objects whose contours are squares centred at
\* (50,50)/(70,50) and (150,50)/(170,50), the measurement pass stores
\* eyes_dist 20.00 for each object, right landmarks (70,50) and (170,50), and
\* exactly one pair, of distance 100.00 (distances are held in hundredths).
C16_TwentyTwentyHundred ==
    stage = "measure" =>
        \A img \in DOMAIN json_file.doc :
            LET record == json_file.doc[img]
            IN  (/\ Len(record.objects) = 2
                 /\ SquaresAt(record.objects[1], 50, 70, 50)
                 /\ SquaresAt(record.objects[2], 150, 170, 50))
                => /\ record.objects[1].eyes_dist = Some(2000)
                   /\ record.objects[2].eyes_dist = Some(2000)
                   /\ record.objects[1].eye_R_center = Some(<<70, 50>>)
                   /\ record.objects[2].eye_R_center = Some(<<170, 50>>)
                   /\ record.pairs = Some(<<[obj_1_id |-> record.objects[1].object_id,
                                             obj_2_id |-> record.objects[2].object_id,
                                             right_eye_dist |-> 10000]>>)

\* the measured image of the two objects, the contours of each stored right
\* one first
C16_Witness ==
    /\ stage = "measure"
    /\ \E img \in DOMAIN json_file.doc :
          LET record == json_file.doc[img]
          IN  /\ Len(record.objects) = 2
              /\ record.objects[1].eyes = <<Dumps(EyeSquare(70, 50)), Dumps(EyeSquare(50, 50))>>
              /\ record.objects[2].eyes = <<Dumps(EyeSquare(170, 50)), Dumps(EyeSquare(150, 50))>>
              /\ record.pairs[1][1].right_eye_dist = 10000

----------------------------------------------------------------------------
(* Properties of the verifier *)

\* the row names the two objects of the pair, in either order
RowNamesPair(row, pair) ==
    \/ row.Obj_ID_1 = Str(pair.obj_1_id) /\ row.Obj_ID_2 = Str(pair.obj_2_id)
    \/ row.Obj_ID_1 = Str(pair.obj_2_id) /\ row.Obj_ID_2 = Str(pair.obj_1_id)

\* C15: once the verifier has loaded the document, the lookup for the two
\* identifiers of any pair of the document, in either order, gives that
\* pair's right_eye_dist; and the value looked up for a processed Pair row
\* that names a pair of its image in either order is that pair's distance.
C15_PairLookupEitherOrder ==
    (pcV \in {"rows", "report", "done"}) =>
        /\ \A img \in DOMAIN json_file.doc :
              \A k \in 1..Len(PairsOf(json_file.doc[img])) :
                  LET pair == PairsOf(json_file.doc[img])[k]
                  IN  /\ PairLookup(sys_pair_map, img, Str(pair.obj_1_id), Str(pair.obj_2_id))
                            = Some(pair.right_eye_dist)
                      /\ PairLookup(sys_pair_map, img, Str(pair.obj_2_id), Str(pair.obj_1_id))
                            = Some(pair.right_eye_dist)
        /\ (rowPos >= 1 /\ gt_rows[rowPos].Type = "Pair"
              /\ gt_rows[rowPos].Image_Name \in DOMAIN json_file.doc) =>
               \A k \in 1..Len(PairsOf(json_file.doc[gt_rows[rowPos].Image_Name])) :
                   LET pair == PairsOf(json_file.doc[gt_rows[rowPos].Image_Name])[k]
                   IN  RowNamesPair(gt_rows[rowPos], pair) => actual = Some(pair.right_eye_dist)

\* a processed Pair row that names the objects 10 and 9, which the engine
\* stored as 9 and 10 and both sorts order as "10", "9"
C15_Witness ==
    /\ pcV = "rows"
    /\ rowPos >= 1
    /\ gt_rows[rowPos].Type = "Pair"
    /\ gt_rows[rowPos].Obj_ID_1 = Str(10)
    /\ gt_rows[rowPos].Obj_ID_2 = Str(9)
    /\ \E k \in 1..Len(PairsOf(json_file.doc[ImageOrder[1]])) :
          LET pair == PairsOf(json_file.doc[ImageOrder[1]])[k]
          IN  /\ pair.obj_1_id = 9
              /\ pair.obj_2_id = 10
              /\ actual = Some(pair.right_eye_dist)

\* row k is a match: a value was looked up for it, and it is not a zero
\* against a non-zero expectation
IsMatch(k) ==
    LET a == RowActual(gt_rows[k], sys_individual_map, sys_pair_map)
    IN  a # Absent /\ ~(a[1] = 0 /\ gt_rows[k].Expected_Dist[1] # 0)

\* the sum of |computed - expected| over the matches among the rows 1..n
RECURSIVE MatchError(_)
MatchError(n) ==
    IF n = 0 THEN 0
    ELSE MatchError(n - 1)
         + (IF IsMatch(n)
            THEN Abs(RowActual(gt_rows[n], sys_individual_map, sys_pair_map)[1]
                     - gt_rows[n].Expected_Dist[1])
            ELSE 0)

\* C17: the row processed last is a miss when no value was looked up, a
\* detection failure when the value is zero and the expectation is not, and
\* a match otherwise; match_count counts the matches and total_error sums
\* |computed - expected| over them alone; the reported MAE is total_error
\* over match_count.  One Individual row expecting 20.00 against a computed
\* 22.50 gives one match, no miss and MAE 2.50.
C17_VerifierClassifies ==
    /\ (pcV \in {"rows", "report", "done"} /\ rowPos >= 1) =>
          /\ verdict = "miss" <=> actual = Absent
          /\ verdict = "fail" <=>
                (actual # Absent /\ actual[1] = 0 /\ gt_rows[rowPos].Expected_Dist[1] # 0)
          /\ verdict \in {"miss", "fail", "match"}
          /\ (gt_rows[rowPos].Type = "Individual" /\ actual # Absent) =>
                \E i \in 1..Len(json_file.doc[gt_rows[rowPos].Image_Name].objects) :
                    LET obj == json_file.doc[gt_rows[rowPos].Image_Name].objects[i]
                    IN  /\ Str(obj.object_id) = gt_rows[rowPos].Obj_ID_1
                        /\ obj.eyes_dist = actual
    /\ pcV \in {"rows", "report", "done"} =>
          /\ match_count = Cardinality({k \in 1..rowPos : IsMatch(k)})
          /\ total_error = MatchError(rowPos)
    /\ pcV = "done" =>
          (match_count > 0 => mae = Some(<<MatchError(Len(gt_rows)), match_count>>))
    /\ (/\ pcV = "done"
        /\ json_file = Json(HandDoc)
        /\ gt_rows = <<Row(ImageOrder[1], "Individual", Str(0), <<>>, Some(2000))>>)
          => /\ match_count = 1
             /\ miss_count = 0
             /\ mae = Some(<<250, 1>>)

\* the report for the one Individual row expecting 20.00 against 22.50
C17_Witness ==
    /\ pcV = "done"
    /\ json_file = Json(HandDoc)
    /\ gt_rows = <<Row(ImageOrder[1], "Individual", Str(0), <<>>, Some(2000))>>
    /\ actual = Some(2250)
    /\ verdict = "match"
    /\ mae = Some(<<250, 1>>)

\* every row processed so far was counted once, and the report comes
\* after the last row
RowsCounted ==
    /\ pcV \in {"rows", "report", "done"} => match_count + miss_count = rowPos
    /\ pcV \in {"report", "done"} => match_count + miss_count = Len(gt_rows)
    /\ (pcV \in {"rows", "report", "done"} /\ rowPos >= 1
          /\ gt_rows[rowPos].Type \notin {"Individual", "Pair"})
            => (verdict = "miss" /\ actual = Absent)
    /\ (pcV = "done" /\ match_count = 0) => mae = Absent
    /\ (pcV = "done" /\ match_count > 0) => (mae # Absent /\ mae[1][2] > 0)

\* a row that is a miss or a detection failure is counted as a miss and
\* the loop goes on
MissGoesOn ==
    (pcV = "rows" /\ rowPos' = rowPos + 1 /\ verdict' \in {"miss", "fail"})
        => (pcV' = "rows" /\ miss_count' = miss_count + 1 /\ match_count' = match_count)

\* C20: the comparison pass does not stop at a miss or a detection failure;
\* at its end match_count + miss_count is the number of rows, a row of
\* unknown type being a miss; with match_count zero no MAE is computed.
C20_EveryRowCounted == []RowsCounted /\ [][MissGoesOn]_vars

\* a report without MAE after a row of unknown type and a detection failure
C20_Witness ==
    /\ pcV = "done"
    /\ match_count = 0
    /\ miss_count = 2
    /\ mae = Absent
    /\ gt_rows[1].Type = "Group"
    /\ verdict = "fail"

----------------------------------------------------------------------------
(* Properties of the masking *)

\* pixel p is in the slice [y1:y2, x1:x2] of the box
InBox(p, bbox) ==
    /\ bbox[1] <= p[1] /\ p[1] < bbox[3]
    /\ bbox[2] <= p[2] /\ p[2] < bbox[4]

\* pixel p lies in the region of the stored contour (float corners, half pixels)
InContourRegion(p, seg) == InPolygon(<<2 * p[1], 2 * p[2]>>, Loads(seg))

\* the siblings of the target whose stored contour parses
ParsedSiblings ==
    {k \in 1..Len(mkObjs) :
        k # mkIdx /\ HasSegmentation(mkObjs[k]) /\ PointsOk(mkObjs[k].segmentation)}

\* the siblings of the target whose stored contour does not parse
CorruptSiblings ==
    {k \in 1..Len(mkObjs) :
        k # mkIdx /\ HasSegmentation(mkObjs[k]) /\ ~PointsOk(mkObjs[k].segmentation)}

\* every pixel in the region of a sibling of ParsedSiblings is zero
SiblingsBlack ==
    \A k \in ParsedSiblings : \A p \in Pixels :
        InContourRegion(p, mkObjs[k].segmentation) => mkInput[p] = 0

C8_CorruptSiblingSkipped ==
    \A k \in CorruptSiblings :
        /\ mkPc # "error"
        /\ mkPc = "masked" => ENABLED MaskDetect
        /\ mkPc \in {"masked", "done"} =>
              /\ SiblingsBlack
              /\ mkInput = MaskedInput(mkImg,
                                       [mkObjs EXCEPT ![k].segmentation = EmptyString],
                                       mkIdx).img

\* a detector call after a masking with one corrupt sibling and one sibling
\* that was blacked out inside the target's box
C8_Witness ==
    /\ mkPc = "done"
    /\ CorruptSiblings # {}
    /\ \E k \in ParsedSiblings : \E p \in Pixels :
          /\ InContourRegion(p, mkObjs[k].segmentation)
          /\ InBox(p, mkObjs[mkIdx].bbox)
          /\ mkImg[p] # 0
          /\ mkInput[p] = 0

====
